---- MODULE Spec2Model ----
\* ip2asn: one run of src/ip2asn.py, from setup_trie_data() to the rendered
\* result. The PyTricia trie is modelled as a set of routes over W-bit keys,
\* texts (RIB tokens, stdin lines, cache keys) as records that are parsed and
\* formatted the way the library parses and prints them.
EXTENDS Integers, Sequences, FiniteSets, TLC

\* ---------------------------------------------------------------- bounds
\* Address width in bits (PyTricia() keys are 32 bits wide; scaled down).
W == 3
\* Longest RIB file, in lines.
MaxRib == 4
\* Longest RIB file made of complete records only, in records.
MaxRecords == 3
\* Longest batch on standard input, in lines.
MaxIps == 2

VARIABLES
    pc,                     \* position of the run in the script
    home_file,              \* the file at TRIE_SAVE_PATH
    json,                   \* args.json
    trie,                   \* the PyTricia object: a set of routes
    f,                      \* build_trie_from_rib: the lines of the open RIB file
    pos,                    \* build_trie_from_rib: lines of f consumed by the loop
    current_prefix,         \* build_trie_from_rib: current_prefix
    ips_to_search,          \* line 156
    filtered_ips_to_search, \* line 157
    asns,                   \* line 158: the dict, as its items in insertion order
    output,                 \* what was printed on standard output
    log,                    \* what the logger wrote
    traceback,              \* the uncaught exception that ended the run, if any
    exit_code               \* exit status of the process once it ended, else -1

vars == <<pc, home_file, json, trie, f, pos, current_prefix, ips_to_search,
          filtered_ips_to_search, asns, output, log, traceback, exit_code>>

\* ---------------------------------------------------------------- texts
\* A whitespace-delimited token. kind "cidr" is the text "addr/len", kind
\* "addr" the text of a bare address, kind "word" any other text (w), kind
\* "none" stands for Python's None.
Tok(k, a, n, s) == [kind |-> k, addr |-> a, len |-> n, w |-> s]
Cidr(a, n) == Tok("cidr", a, n, "")
Addr(a) == Tok("addr", a, W, "")
Word(s) == Tok("word", 0, 0, s)
None == Tok("none", 0, 0, "")

\* Python truthiness of a token or None (a token is a non-empty string).
Truthy(t) == t.kind # "none"

Addrs == 0 .. (2^W - 1)
Hi == 2^(W - 1)
Quarter == 2^(W - 2)

\* The bits of an address, most significant first.
ToBits(a) == [b \in 1 .. W |-> (a \div 2^(W - b)) % 2]

\* The number a bit string of length <= W denotes once padded with zeros.
RECURSIVE FromBits(_)
FromBits(bits) ==
    IF bits = <<>> THEN 0
    ELSE Head(bits) * 2^(W - 1) + FromBits(Tail(bits)) \div 2

\* Whether the library accepts a text as a key: an address or a CIDR prefix
\* of the trie's family with a length within the key width.
IsValidKey(t) ==
    /\ t.kind \in {"cidr", "addr"}
    /\ t.addr \in Addrs
    /\ t.len \in 0 .. W

\* The key the library makes of an accepted text: the first len bits of the
\* address, the bits beyond len dropped.
ParseKey(t) == SubSeq(ToBits(t.addr), 1, t.len)

\* The text the library prints for a stored key: "network/len".
FormatKey(k) == Cidr(FromBits(k), Len(k))

\* ---------------------------------------------------------------- trie
\* A route: a key and the value bound to it.
Route(k, v) == [key |-> k, val |-> v]

\* pytricia.PyTricia()
EmptyTrie == {}

\* A faulty variant of Insert: the route overwritten is the best match of the new key,
\* not the route of the key itself.
InsertOverBestMatch(t, text, v) ==
    LET k == ParseKey(text)
        covering == {r \in t : Len(r.key) <= Len(k) /\ r.key = SubSeq(k, 1, Len(r.key))}
        best == {r \in covering : \A q \in covering : Len(q.key) <= Len(r.key)}
    IN  (t \ best) \cup {Route(k, v)}

\* trie[text] = value, for an accepted text.
Insert(t, text, v) ==
    {r \in t : r.key # ParseKey(text)} \cup {Route(ParseKey(text), v)}

\* The descent of a best-match search: from depth d down the bits, the value
\* of the last route met on the path is kept.
RECURSIVE Descend(_, _, _, _)
Descend(t, bits, d, best) ==
    LET here == {r \in t : r.key = SubSeq(bits, 1, d)}
        seen == IF here = {} THEN best ELSE (CHOOSE r \in here : TRUE).val
    IN  IF d = Len(bits) THEN seen ELSE Descend(t, bits, d + 1, seen)

\* The library's best-match search for a key; None when no route is met.
SearchBest(t, k) == Descend(t, k, 0, None)

\* A descent that stops at the first route met instead of the last.
RECURSIVE DescendFirst(_, _, _)
DescendFirst(t, bits, d) ==
    LET here == {r \in t : r.key = SubSeq(bits, 1, d)}
    IN  IF here # {} THEN (CHOOSE r \in here : TRUE).val
        ELSE IF d = Len(bits) THEN None
        ELSE DescendFirst(t, bits, d + 1)

\* A faulty variant of Get: the shortest match.
GetFirstMatch(t, ip) == DescendFirst(t, ParseKey(ip), 0)

\* trie.get(ip)
Get(t, ip) == SearchBest(t, ParseKey(ip))

\* A faulty variant of Subscript: the shortest match.
SubscriptFirstMatch(t, text) == DescendFirst(t, ParseKey(text), 0)

\* trie[key] for a key the iteration of the trie yields.
Subscript(t, text) == SearchBest(t, ParseKey(text))

\* for key in trie
Keys(t) == {FormatKey(r.key) : r \in t}

\* ---------------------------------------------------------------- files
\* The file at TRIE_SAVE_PATH: absent, present but not a gzip of JSON, or the
\* gzip of a JSON object from key texts to values (data).
Absent == [kind |-> "absent", data |-> <<>>]
Corrupt == [kind |-> "corrupt", data |-> <<>>]
Ok(d) == [kind |-> "ok", data |-> d]

\* The key texts and values of the cache files a run may find.
CanonKeys == {Cidr(Hi, 1), Cidr(Hi + Quarter, 2)}
AsnTokens == {Word("100"), Word("200")}
CacheFiles ==
    {Absent, Corrupt}
        \cup {Ok(d) : d \in UNION {[S -> AsnTokens] : S \in SUBSET CanonKeys}}

\* A line of the RIB file: the text it starts with, then its other tokens.
Line(m, r) == [marker |-> m, rest |-> r]
RibLines ==
    {Line("PREFIX:", r) :
        r \in {<<Cidr(Hi + 1, 1)>>, <<Cidr(Hi, 1)>>, <<Cidr(Hi + Quarter, 2)>>, <<>>}}
        \cup {Line("ASPATH:", r) : r \in {<<Word("64500"), Word("100")>>, <<Word("200")>>}}
        \cup {Line("TIME:", <<>>)}
\* The RIB files a run may find: any lines up to MaxRib, and longer files
\* in which every PREFIX: line is followed at once by its ASPATH: line.
LineRibs == UNION {[1 .. n -> RibLines] : n \in 0 .. MaxRib}
RibRecords ==
    {<<p, a>> : p \in {l \in RibLines : l.marker = "PREFIX:"},
                a \in {l \in RibLines : l.marker = "ASPATH:"}}
Flatten(rs) ==
    [j \in 1 .. 2 * Len(rs) |->
        IF j % 2 = 1 THEN rs[(j + 1) \div 2][1] ELSE rs[j \div 2][2]]
RecordRibs == {Flatten(rs) : rs \in UNION {[1 .. n -> RibRecords] : n \in 0 .. MaxRecords}}
Ribs == LineRibs \cup RecordRibs

\* A line of standard input, stripped: an address in the private block, an
\* address no route covers, one in the /1, one in the /2, and the empty line.
StdinLines == {Addr(1), Addr(2), Addr(Hi), Addr(Hi + Quarter), Word("")}
Batches == UNION {[1 .. n -> StdinLines] : n \in 0 .. MaxIps}

\* ---------------------------------------------------------------- build
\* line.split()[-1]
LastToken(line) ==
    LET tokens == <<Word(line.marker)>> \o line.rest IN tokens[Len(tokens)]

\* One pass of the loop body of build_trie_from_rib over the locals st.
IngestLine(st, line) ==
    IF line.marker = "PREFIX:"
    THEN [st EXCEPT !.current_prefix = LastToken(line)]
    ELSE IF line.marker = "ASPATH:" /\ Truthy(st.current_prefix)
    THEN IF IsValidKey(st.current_prefix)
         THEN [st EXCEPT !.trie = Insert(st.trie, st.current_prefix, LastToken(line)),
                         !.current_prefix = None]
         ELSE [st EXCEPT !.raised = TRUE]
    ELSE st

\* The whole loop over the lines of a file, stopping where a line raises.
RECURSIVE IngestAll(_, _)
IngestAll(st, lines) ==
    IF lines = <<>> \/ st.raised THEN st
    ELSE IngestAll(IngestLine(st, Head(lines)), Tail(lines))

\* The locals of build_trie_from_rib when the loop starts.
FreshBuild == [trie |-> EmptyTrie, current_prefix |-> None, raised |-> FALSE]

\* {key: trie[key] for key in trie}
Serialize(t) == [k \in Keys(t) |-> Subscript(t, k)]

\* The loop of load_trie_from_file over data.items().
RECURSIVE LoadItems(_, _, _)
LoadItems(t, data, keys) ==
    IF keys = {} THEN t
    ELSE LET k == CHOOSE x \in keys : TRUE
         IN  LoadItems(Insert(t, k, data[k]), data, keys \ {k})

\* load_trie_from_file on a well-formed file.
load_trie_from_file(file) == LoadItems(EmptyTrie, file.data, DOMAIN file.data)

\* ---------------------------------------------------------------- query
\* ipaddress.ip_address(ip) accepts the text.
IsIpLiteral(ip) == ip.kind = "addr" /\ ip.addr \in Addrs

\* ipaddress.ip_address(ip).is_private, for an accepted text: the lowest
\* block of the address space stands for the private ranges.
is_private_ip(ip) == ip.addr \div 2 = 0

\* dict[k] = v on a dict kept as its items in insertion order.
DictPut(items, k, v) ==
    IF \E j \in 1 .. Len(items) : items[j].ip = k
    THEN [j \in 1 .. Len(items) |->
            IF items[j].ip = k THEN [ip |-> k, asn |-> v] ELSE items[j]]
    ELSE Append(items, [ip |-> k, asn |-> v])

\* find_asn_for_ips(ips, trie), from the dict built so far.
RECURSIVE FindFrom(_, _, _)
FindFrom(items, ips, t) ==
    IF ips = <<>> THEN items
    ELSE FindFrom(DictPut(items, Head(ips), Get(t, Head(ips))), Tail(ips), t)

find_asn_for_ips(ips, t) == FindFrom(<<>>, ips, t)

\* The bucket an item is rendered under: AS<asn>, or NOT_FOUND.
NotFound == [bucket |-> "NOT_FOUND", asn |-> None]
As(asn) == [bucket |-> "AS", asn |-> asn]
Label(asn) == IF Truthy(asn) THEN As(asn) ELSE NotFound

\* asn_to_ips[label].append(ip) on a defaultdict(list) kept as its items.
GroupAppend(groups, label, ip) ==
    IF \E j \in 1 .. Len(groups) : groups[j].label = label
    THEN [j \in 1 .. Len(groups) |->
            IF groups[j].label = label
            THEN [label |-> label, ips |-> Append(groups[j].ips, ip)]
            ELSE groups[j]]
    ELSE Append(groups, [label |-> label, ips |-> <<ip>>])

\* The JSON rendering: the items grouped by label.
RECURSIVE RenderJson(_, _)
RenderJson(groups, items) ==
    IF items = <<>> THEN groups
    ELSE RenderJson(GroupAppend(groups, Label(Head(items).asn), Head(items).ip),
                    Tail(items))

\* The per-line rendering: one printed line for each item.
RenderLines(items) ==
    [j \in 1 .. Len(items) |-> [label |-> Label(items[j].asn), ips |-> <<items[j].ip>>]]

\* ---------------------------------------------------------------- the run
Init ==
    /\ pc = "setup"
    /\ home_file \in CacheFiles
    /\ json \in BOOLEAN
    /\ trie = EmptyTrie
    /\ f = <<>>
    /\ pos = 0
    /\ current_prefix = None
    /\ ips_to_search = <<>>
    /\ filtered_ips_to_search = <<>>
    /\ asns = <<>>
    /\ output = <<>>
    /\ log = <<>>
    /\ traceback = ""
    /\ exit_code = -1

\* setup_trie_data(): a trie_data.json.gz in the current directory, if there
\* is one, is copied over the file at TRIE_SAVE_PATH.
setup_trie_data ==
    /\ pc = "setup"
    /\ \E src \in CacheFiles :
        home_file' = IF src.kind # "absent" THEN src ELSE home_file
    /\ pc' = "check"
    /\ UNCHANGED <<json, trie, f, pos, current_prefix, ips_to_search,
                   filtered_ips_to_search, asns, output, log, traceback, exit_code>>

\* Lines 149-151 on a well-formed cache file.
LoadOk ==
    /\ pc = "check"
    /\ home_file.kind = "ok"
    /\ log' = Append(log, "Loading trie from saved file...")
    /\ trie' = load_trie_from_file(home_file)
    /\ pc' = "stdin"
    /\ UNCHANGED <<home_file, json, f, pos, current_prefix, ips_to_search,
                   filtered_ips_to_search, asns, output, traceback, exit_code>>

\* Lines 149-151 on a cache file that gzip or json cannot read: the exception
\* of line 116 or 117 is caught nowhere.
LoadCorrupt ==
    /\ pc = "check"
    /\ home_file.kind = "corrupt"
    /\ log' = Append(log, "Loading trie from saved file...")
    /\ pc' = "crashed"
    /\ traceback' = "BadGzipFile"
    /\ exit_code' = 1
    /\ UNCHANGED <<home_file, json, trie, f, pos, current_prefix, ips_to_search,
                   filtered_ips_to_search, asns, output>>

\* Lines 152-154 and 82-88: no cache file, and the RIB file opens.
BuildOpenOk ==
    /\ pc = "check"
    /\ home_file.kind = "absent"
    /\ log' = Append(log, "Serialized trie not found. Building trie from RIB dump...")
    /\ \E r \in Ribs : f' = r
    /\ pos' = 0
    /\ trie' = FreshBuild.trie
    /\ current_prefix' = FreshBuild.current_prefix
    /\ pc' = "ingest"
    /\ UNCHANGED <<home_file, json, ips_to_search, filtered_ips_to_search, asns,
                   output, traceback, exit_code>>

\* A faulty variant of BuildOpenNotFound: the handler logs the error and does not
\* exit, so the function goes on to line 100 with an empty trie.
BuildOpenNotFoundNoExit ==
    /\ pc = "check"
    /\ home_file.kind = "absent"
    /\ log' = log \o <<"Serialized trie not found. Building trie from RIB dump...",
                       "RIB file not found.">>
    /\ pc' = "ingest"
    /\ UNCHANGED <<home_file, json, trie, f, pos, current_prefix, ips_to_search,
                   filtered_ips_to_search, asns, output, traceback, exit_code>>

\* Lines 85 and 96-98: no cache file, and open() raises FileNotFoundError.
BuildOpenNotFound ==
    /\ pc = "check"
    /\ home_file.kind = "absent"
    /\ log' = log \o <<"Serialized trie not found. Building trie from RIB dump...",
                       "RIB file not found.">>
    /\ pc' = "exited"
    /\ exit_code' = 1
    /\ UNCHANGED <<home_file, json, trie, f, pos, current_prefix, ips_to_search,
                   filtered_ips_to_search, asns, output, traceback>>

\* Line 85: no cache file, and open() raises another OSError (the file cannot
\* be read, or is a directory), which line 96 does not catch.
BuildOpenDenied ==
    /\ pc = "check"
    /\ home_file.kind = "absent"
    /\ log' = Append(log, "Serialized trie not found. Building trie from RIB dump...")
    /\ pc' = "crashed"
    /\ traceback' = "PermissionError"
    /\ exit_code' = 1
    /\ UNCHANGED <<home_file, json, trie, f, pos, current_prefix, ips_to_search,
                   filtered_ips_to_search, asns, output>>

\* The locals of the loop of build_trie_from_rib after its next line.
NextLocals ==
    IngestLine([trie |-> trie, current_prefix |-> current_prefix, raised |-> FALSE],
               f[pos + 1])

\* Lines 89-95: the loop takes the next line of the file.
Ingest ==
    /\ pc = "ingest"
    /\ pos < Len(f)
    /\ ~NextLocals.raised
    /\ trie' = NextLocals.trie
    /\ current_prefix' = NextLocals.current_prefix
    /\ pos' = pos + 1
    /\ UNCHANGED <<pc, home_file, json, f, ips_to_search, filtered_ips_to_search,
                   asns, output, log, traceback, exit_code>>

\* Line 94 on a text the library rejects: its ValueError is caught nowhere.
IngestRaises ==
    /\ pc = "ingest"
    /\ pos < Len(f)
    /\ NextLocals.raised
    /\ pc' = "crashed"
    /\ traceback' = "ValueError: invalid prefix"
    /\ exit_code' = 1
    /\ UNCHANGED <<home_file, json, trie, f, pos, current_prefix, ips_to_search,
                   filtered_ips_to_search, asns, output, log>>

\* Lines 100-103: the loop is over, the cache file is written and the
\* function returns, its locals gone.
WriteCache ==
    /\ pc = "ingest"
    /\ pos = Len(f)
    /\ home_file' = Ok(Serialize(trie))
    /\ f' = <<>>
    /\ pos' = 0
    /\ current_prefix' = None
    /\ pc' = "stdin"
    /\ UNCHANGED <<json, trie, ips_to_search, filtered_ips_to_search, asns, output,
                   log, traceback, exit_code>>

\* Line 156
ReadStdin ==
    /\ pc = "stdin"
    /\ \E batch \in Batches : ips_to_search' = batch
    /\ pc' = "filter"
    /\ UNCHANGED <<home_file, json, trie, f, pos, current_prefix,
                   filtered_ips_to_search, asns, output, log, traceback, exit_code>>

\* Line 157 on a batch of address literals.
Filter ==
    /\ pc = "filter"
    /\ \A j \in 1 .. Len(ips_to_search) : IsIpLiteral(ips_to_search[j])
    /\ filtered_ips_to_search' =
        SelectSeq(ips_to_search, LAMBDA ip : ~is_private_ip(ip))
    /\ pc' = "lookup"
    /\ UNCHANGED <<home_file, json, trie, f, pos, current_prefix, ips_to_search,
                   asns, output, log, traceback, exit_code>>

\* Line 157 on a batch with a line ipaddress.ip_address rejects: the
\* ValueError of line 70 is caught nowhere.
FilterRaises ==
    /\ pc = "filter"
    /\ \E j \in 1 .. Len(ips_to_search) : ~IsIpLiteral(ips_to_search[j])
    /\ pc' = "crashed"
    /\ traceback' = "ValueError: not an IP address"
    /\ exit_code' = 1
    /\ UNCHANGED <<home_file, json, trie, f, pos, current_prefix, ips_to_search,
                   filtered_ips_to_search, asns, output, log>>

\* Line 158
Lookup ==
    /\ pc = "lookup"
    /\ asns' = find_asn_for_ips(filtered_ips_to_search, trie)
    /\ pc' = "render"
    /\ UNCHANGED <<home_file, json, trie, f, pos, current_prefix, ips_to_search,
                   filtered_ips_to_search, output, log, traceback, exit_code>>

\* Lines 160-173, and the end of the script.
Render ==
    /\ pc = "render"
    /\ output' = IF json THEN RenderJson(<<>>, asns) ELSE RenderLines(asns)
    /\ pc' = "done"
    /\ exit_code' = 0
    /\ UNCHANGED <<home_file, json, trie, f, pos, current_prefix, ips_to_search,
                   filtered_ips_to_search, asns, log, traceback>>

Next ==
    \/ setup_trie_data
    \/ LoadOk
    \/ LoadCorrupt
    \/ BuildOpenOk
    \/ BuildOpenNotFound
    \/ BuildOpenDenied
    \/ Ingest
    \/ IngestRaises
    \/ WriteCache
    \/ ReadStdin
    \/ Filter
    \/ FilterRaises
    \/ Lookup
    \/ Render

Spec == Init /\ [][Next]_vars

\* ================================================================ claims
\* What the claims speak of, stated apart from the code's own steps.

\* Every key a trie can hold.
AllKeys == {SubSeq(ToBits(a), 1, n) : a \in Addrs, n \in 0 .. W}

\* The addresses of the network a route is bound to include a.
Covers(r, a) ==
    a \div 2^(W - Len(r.key)) = FromBits(r.key) \div 2^(W - Len(r.key))

\* The value bound to the longest stored prefix that contains a, else None.
LongestMatch(t, a) ==
    LET C == {r \in t : Covers(r, a)}
    IN  IF C = {} THEN None
        ELSE (CHOOSE r \in C : \A q \in C : Len(q.key) <= Len(r.key)).val

IsPrefixLine(l) == l.marker = "PREFIX:"
IsAspathLine(l) == l.marker = "ASPATH:"

\* Line j is a PREFIX: line followed by an ASPATH: line before the next
\* PREFIX: line and before the end of the lines.
IsCompleteAt(lines, j) ==
    /\ IsPrefixLine(lines[j])
    /\ \E k \in (j + 1) .. Len(lines) :
        /\ IsAspathLine(lines[k])
        /\ \A m \in (j + 1) .. (k - 1) : ~IsPrefixLine(lines[m])

\* The last token of the ASPATH: line of the complete record at line j.
AsnOfRecord(lines, j) ==
    LET k == CHOOSE x \in (j + 1) .. Len(lines) :
                /\ IsAspathLine(lines[x])
                /\ \A m \in (j + 1) .. (x - 1) : ~IsAspathLine(lines[m])
    IN  LastToken(lines[k])

\* The PREFIX: line names the prefix with this key.
NamesKey(line, key) ==
    IsValidKey(LastToken(line)) /\ ParseKey(LastToken(line)) = key

\* The lines of the complete records of f that name key.
RecordsOf(lines, key) ==
    {j \in 1 .. Len(lines) : NamesKey(lines[j], key) /\ IsCompleteAt(lines, j)}

Stored(t, key) == \E r \in t : r.key = key

\* The loop of build_trie_from_rib has ended, by running out of lines or by
\* an exception.
LoopDone == pc = "ingest" /\ pos = Len(f)
BuildEnded == LoopDone \/ (pc = "crashed" /\ traceback = "ValueError: invalid prefix")

\* build_trie_from_rib returned in this run, so the cache file is its.
Built ==
    /\ home_file.kind = "ok"
    /\ log # <<>>
    /\ log[1] = "Serialized trie not found. Building trie from RIB dump..."

\* Standard input was read and the run has ended.
QueryEnded ==
    pc = "done" \/ (pc = "crashed" /\ traceback = "ValueError: not an IP address")

SameLookups(t1, t2) == \A a \in Addrs : Get(t1, Addr(a)) = Get(t2, Addr(a))

\* The places of the output an input line is printed at.
Places(ip) ==
    {gj \in (1 .. Len(output)) \X (1 .. Len(ips_to_search)) :
        /\ gj[2] <= Len(output[gj[1]].ips)
        /\ output[gj[1]].ips[gj[2]] = ip}

\* An address is rendered once, under NOT_FOUND exactly when no stored prefix
\* contains it and else under the ASN of its longest match.
RenderedOnce(ip) ==
    /\ Cardinality(Places(ip)) = 1
    /\ \A gj \in Places(ip) :
        output[gj[1]].label =
            IF \E r \in trie : Covers(r, ip.addr)
            THEN As(LongestMatch(trie, ip.addr))
            ELSE NotFound

\* ---------------------------------------------------------------- C1
\* C1: once find_asn_for_ips has run on a trie that build_trie_from_rib or
\* load_trie_from_file produced, every queried address is mapped, and it is
\* mapped to the value bound to the longest stored prefix that contains it,
\* or to None when no stored prefix contains it.
C1_LongestPrefixMatch ==
    pc \in {"render", "done"} =>
        /\ \A j \in 1 .. Len(filtered_ips_to_search) :
            \E k \in 1 .. Len(asns) : asns[k].ip = filtered_ips_to_search[j]
        /\ \A k \in 1 .. Len(asns) :
            asns[k].asn = LongestMatch(trie, asns[k].ip.addr)

\* C1 witness: a /1 and a /2 inside it are stored under different ASNs; an
\* address of the /2 got the /2's ASN and an uncovered address got None.
C1_Witness ==
    /\ pc = "done"
    /\ \E r1, r2 \in trie : Len(r1.key) = 1 /\ Len(r2.key) = 2 /\ r1.val # r2.val
    /\ \E k \in 1 .. Len(asns) :
        /\ asns[k].ip = Addr(Hi + Quarter)
        /\ \E r \in trie : Len(r.key) = 2 /\ asns[k].asn = r.val
    /\ \E k \in 1 .. Len(asns) : asns[k].ip = Addr(2) /\ asns[k].asn = None

\* ---------------------------------------------------------------- C2
\* C2: the trie load_trie_from_file makes of the cache file that
\* build_trie_from_rib wrote holds the same routes as the trie built, and
\* answers every address lookup as it does.
C2_RoundTrip ==
    Built =>
        /\ load_trie_from_file(home_file) = trie
        /\ SameLookups(load_trie_from_file(home_file), trie)

\* C2 witness: a cache file written by a build that stored two nested
\* prefixes under different ASNs, one of them named with host bits set.
C2_Witness ==
    /\ Built
    /\ pc = "stdin"
    /\ \E r1, r2 \in trie : Len(r1.key) = 1 /\ Len(r2.key) = 2 /\ r1.val # r2.val
    /\ DOMAIN home_file.data = CanonKeys

\* ---------------------------------------------------------------- C3
\* C3: after build_trie_from_rib has gone through any sequence of RIB lines,
\* a prefix is stored if and only if some PREFIX: line naming it is followed
\* by an ASPATH: line before the next PREFIX: line and before end of input.
C3_StoredIffCompleteRecord ==
    BuildEnded =>
        \A key \in AllKeys : Stored(trie, key) <=> RecordsOf(f, key) # {}

\* C3, for the files whose loop runs to its end.
C3_WhenLoopDone ==
    LoopDone =>
        \A key \in AllKeys : Stored(trie, key) <=> RecordsOf(f, key) # {}

\* ---------------------------------------------------------------- C4
\* C4: after any sequence of complete RIB records the trie holds at most one
\* route for each prefix, and a prefix that occurs in several complete
\* records is bound to the last token of the ASPATH: line of the last one.
C4_LastWriteWins ==
    BuildEnded =>
        /\ \A r1, r2 \in trie : r1.key = r2.key => r1 = r2
        /\ \A key \in AllKeys :
            Cardinality(RecordsOf(f, key)) > 1 =>
                \E r \in trie :
                    /\ r.key = key
                    /\ r.val = AsnOfRecord(f, CHOOSE j \in RecordsOf(f, key) :
                                                \A i \in RecordsOf(f, key) : i <= j)

\* C4, for the files whose loop runs to its end.
C4_WhenLoopDone ==
    LoopDone =>
        /\ \A r1, r2 \in trie : r1.key = r2.key => r1 = r2
        /\ \A key \in AllKeys :
            RecordsOf(f, key) # {} =>
                \E r \in trie :
                    /\ r.key = key
                    /\ r.val = AsnOfRecord(f, CHOOSE j \in RecordsOf(f, key) :
                                                \A i \in RecordsOf(f, key) : i <= j)

\* ---------------------------------------------------------------- C5
\* C5: a cache file that cannot be decompressed or parsed does not end the
\* run with an error (the trie is rebuilt from the RIB dump instead), and a
\* run that loads a well-formed cache file does not read the RIB dump.
C5_CorruptCacheRebuilds ==
    /\ traceback # "BadGzipFile"
    /\ (log # <<>> /\ log[1] = "Loading trie from saved file...") =>
        /\ Len(log) = 1
        /\ f = <<>>

\* ---------------------------------------------------------------- C6
\* C6: a batch with a line that is no IP address literal does not end the
\* run abnormally: the run ends normally, that line is rendered under
\* NOT_FOUND and every other public line is rendered.
C6_BadLineIsNotFound ==
    (QueryEnded /\ \E j \in 1 .. Len(ips_to_search) : ~IsIpLiteral(ips_to_search[j])) =>
        /\ pc = "done"
        /\ exit_code = 0
        /\ \A j \in 1 .. Len(ips_to_search) :
            LET ip == ips_to_search[j]
            IN  IF ~IsIpLiteral(ip)
                THEN \E gj \in Places(ip) : output[gj[1]].label = NotFound
                ELSE is_private_ip(ip) \/ Places(ip) # {}

\* ---------------------------------------------------------------- C7
\* C7: when no cache file exists and the RIB file cannot be opened, the run
\* has ended with a non-zero exit status and goes no further: no cache file
\* is written, no address is looked up and nothing is printed.
C7_UnreadableRibIsFatal ==
    (\/ \E j \in 1 .. Len(log) : log[j] = "RIB file not found."
     \/ traceback = "PermissionError") =>
        /\ pc \in {"exited", "crashed"}
        /\ exit_code > 0
        /\ ~ENABLED Next
        /\ home_file.kind = "absent"
        /\ ips_to_search = <<>>
        /\ asns = <<>>
        /\ output = <<>>

\* C7 witness: the run ended by sys.exit(1) in the FileNotFoundError handler.
C7_Witness ==
    /\ pc = "exited"
    /\ exit_code = 1
    /\ log[Len(log)] = "RIB file not found."
    /\ home_file.kind = "absent"

\* ---------------------------------------------------------------- C8
\* C8: build_trie_from_rib never aborts on a record whose prefix text is no
\* valid CIDR prefix: the loop runs to its end and every complete record
\* with a valid prefix is stored.
C8_BadRecordIsSkipped ==
    /\ traceback # "ValueError: invalid prefix"
    /\ LoopDone =>
        \A j \in 1 .. Len(f) :
            (IsCompleteAt(f, j) /\ IsValidKey(LastToken(f[j]))) =>
                Stored(trie, ParseKey(LastToken(f[j])))

\* ---------------------------------------------------------------- C9
\* The lines are complete records, each a PREFIX: line and its ASPATH: line.
IsRecordSeq(lines) ==
    /\ Len(lines) % 2 = 0
    /\ \A j \in 1 .. Len(lines) :
        IF j % 2 = 1 THEN IsPrefixLine(lines[j]) ELSE IsAspathLine(lines[j])

\* The permutations of n records, and the lines of the records permuted.
Perms(n) == {p \in [1 .. n -> 1 .. n] : \A i, j \in 1 .. n : p[i] = p[j] => i = j}
Permute(lines, p) ==
    [j \in 1 .. Len(lines) |->
        IF j % 2 = 1 THEN lines[2 * p[(j + 1) \div 2] - 1] ELSE lines[2 * p[j \div 2]]]

\* No prefix is bound to two different ASNs by the records.
NoConflict(lines) ==
    \A i, j \in 1 .. Len(lines) :
        (/\ i % 2 = 1
         /\ j % 2 = 1
         /\ IsValidKey(LastToken(lines[i]))
         /\ IsValidKey(LastToken(lines[j]))
         /\ ParseKey(LastToken(lines[i])) = ParseKey(LastToken(lines[j])))
            => LastToken(lines[i + 1]) = LastToken(lines[j + 1])

\* The build of every permutation of the records of f ends as the build of
\* f did and, where a trie is built, answers every lookup as this trie does.
AnyOrderAgrees ==
    \A p \in Perms(Len(f) \div 2) :
        LET other == IngestAll(FreshBuild, Permute(f, p))
        IN  /\ other.raised = (pc = "crashed")
            /\ ~other.raised => SameLookups(other.trie, trie)

\* C9 as stated: for any two sequences of complete RIB records that are
\* permutations of each other, the tries built answer every lookup alike.
C9_OrderIrrelevant == (BuildEnded /\ IsRecordSeq(f)) => AnyOrderAgrees

\* C9 amended: the same, for records that bind no prefix to two different
\* ASNs.
C9_OrderIrrelevantNoConflict ==
    (BuildEnded /\ IsRecordSeq(f) /\ NoConflict(f)) => AnyOrderAgrees

\* C9 witness: three records were ingested, two of them naming one prefix
\* under one ASN and the third a prefix inside it under another ASN.
C9_Witness ==
    /\ LoopDone
    /\ IsRecordSeq(f)
    /\ NoConflict(f)
    /\ Len(f) = 6
    /\ \E r1, r2 \in trie : Len(r1.key) = 1 /\ Len(r2.key) = 2 /\ r1.val # r2.val

\* ---------------------------------------------------------------- C10
\* C10: over any batch of input lines, in both output modes, each distinct
\* public address of the batch is printed exactly once, under NOT_FOUND
\* exactly when no stored prefix contains it and else under the ASN of its
\* longest match.
C10_EachAddressRenderedOnce ==
    QueryEnded =>
        \A j \in 1 .. Len(ips_to_search) :
            (IsIpLiteral(ips_to_search[j]) /\ ~is_private_ip(ips_to_search[j])) =>
                RenderedOnce(ips_to_search[j])

\* C10, for the batches whose run reaches the rendering.
C10_WhenRendered ==
    pc = "done" =>
        \A j \in 1 .. Len(ips_to_search) :
            (IsIpLiteral(ips_to_search[j]) /\ ~is_private_ip(ips_to_search[j])) =>
                RenderedOnce(ips_to_search[j])

====
